---- MODULE Spec2Model ----
(***************************************************************************)
(* Model of calendar_bot: the Ethiopian <-> Gregorian date converter       *)
(* (src/converter.py, class EthiopianDateConverter), the user store of the *)
(* Telegram bot and the bot's handlers (src/bot.py), the migration of the *)
(* user file (src/user_migrate.py), and threads calling the converter at   *)
(* the same time.  Each part has its own specification; the variables of   *)
(* the other parts stay as they start.                                     *)
(*                                                                         *)
(* The converter is a namespace of pure class methods.  Each method is an  *)
(* operator computed the way the code computes it (same tables, same       *)
(* indices, same loops); the state machine calls the methods on inputs     *)
(* drawn from bounded sets and records what each call returned or raised.  *)
(* Python lists are modelled as functions over 0..n-1 so that the indices  *)
(* of the source are the indices of the model.                             *)
(*                                                                         *)
(* Inputs are integers, so the isinstance branch of the validators         *)
(* (converter.py:29-30, 64-65) is never taken and is not modelled.         *)
(***************************************************************************)
EXTENDS Integers, Sequences, FiniteSets, TLC

VARIABLES
    pc,     \* "idle", "validated", "converted", "round_trip" or "later"
    call,   \* the method called and its arguments
    ret,    \* what the call returned or raised
    back,   \* what the opposite conversion made of ret (round trip)
    _users_cache,   \* bot.py global: None until the first load_users()
    users_file,     \* the "users" object stored in users.json
    added,          \* the user ids add_user has been called with so far
    returned,       \* the last call on the user store and its value
    update,         \* the last update the bot handled in the chat
    user_data,      \* context.user_data of the chat: lang, mode, last_mode
    sent,           \* the last message the bot sent to the chat
    shown,          \* callback data of the buttons sent to the chat so far
    users_json,     \* user_migrate.py: the "users" object of users.json
    log,            \* user_migrate.py: the summary each run printed
    frames,         \* concurrent callers: the frame of each thread's call
    tables,         \* concurrent callers: the month lists the calls made
    earlier         \* a caller of two dates: its first call and the outcome

converterVars == <<pc, call, ret, back>>
storeVars     == <<_users_cache, users_file, added, returned>>
botVars       == <<update, user_data, sent, shown>>

migrateVars   == <<users_json, log>>
threadVars    == <<frames, tables>>
callerVars    == <<earlier>>

vars == <<converterVars, storeVars, botVars, migrateVars, threadVars,
          callerVars>>

\* What each part of the program leaves alone.
notConverter == <<storeVars, botVars, migrateVars, threadVars, callerVars>>
notStore     == <<converterVars, botVars, migrateVars, threadVars, callerVars>>
notBot       == <<converterVars, storeVars, migrateVars, threadVars, callerVars>>
notMigrate   == <<converterVars, storeVars, botVars, threadVars, callerVars>>
notThreads   == <<converterVars, storeVars, botVars, migrateVars, callerVars>>
notCaller    == <<storeVars, botVars, migrateVars, threadVars>>

----------------------------------------------------------------------------
(* Bounds of the input space.                                              *)

Below    == 1       \* how far below zero a year, month or day is tried
MaxYear  == 2030    \* largest year tried
MaxMonth == 14      \* largest month tried
MaxDay   == 32      \* largest day tried

Years  == (0 - Below)..MaxYear
Months == (0 - Below)..MaxMonth
Days   == (0 - Below)..MaxDay

----------------------------------------------------------------------------
(* Python values.                                                          *)

\* A Python list literal, indexed from 0.
List(seq) == [i \in 0..(Len(seq) - 1) |-> seq[i + 1]]

\* An f-string: the template and the values substituted into it.
Message(text, nums, strs) == [text |-> text, nums |-> nums, strs |-> strs]

\* The validators return None for a valid date.
None == Message("None", <<>>, <<>>)

----------------------------------------------------------------------------
(* Helpers of the converter.                                               *)

\* Variant: the 400-year term of the new-year offset is left out.
_start_day_of_ethiopian_no400(year) ==
    LET new_year_day == (year \div 100) - 4
    IN  IF (year - 1) % 4 = 3 THEN new_year_day + 1 ELSE new_year_day

_start_day_of_ethiopian(year) ==
    LET new_year_day == (year \div 100) - (year \div 400) - 4
    IN  IF (year - 1) % 4 = 3 THEN new_year_day + 1 ELSE new_year_day

\* Variant: the leap year is the one whose remainder is 3.
_is_ethiopian_leap_year_mod3(year) == year % 4 = 3

_is_ethiopian_leap_year(year) == (year - 1) % 4 = 3

\* Variant: the Julian rule, every fourth year.
_is_gregorian_leap_year_julian(year) == year % 4 = 0

_is_gregorian_leap_year(year) ==
    (year % 4 = 0 /\ year % 100 # 0) \/ year % 400 = 0

----------------------------------------------------------------------------
(* Validators.                                                             *)

\* Variant: the day check lets day 0 through (date < 0 for date <= 0).
_validate_ethiopian_date_day0(year, month, date) ==
    IF year <= 0 THEN
        Message("Invalid Ethiopian year: {year}. Year must be a positive integer.",
                <<year>>, <<>>)
    ELSE IF month <= 0 THEN
        Message("Invalid Ethiopian month: {month}. Month must be between 1 and 13.",
                <<month>>, <<>>)
    ELSE IF date < 0 THEN
        Message("Invalid Ethiopian day: {date}. Day must be a positive integer.",
                <<date>>, <<>>)
    ELSE IF month > 13 THEN
        Message("Invalid Ethiopian month: {month}. Ethiopian calendar has only 13 months (1-13).",
                <<month>>, <<>>)
    ELSE IF month <= 12 THEN
        IF date > 30 THEN
            Message("Invalid Ethiopian date: Month {month} has only 30 days, but day {date} was provided.",
                    <<month, date>>, <<>>)
        ELSE None
    ELSE
        LET is_leap     == (year - 1) % 4 = 3
            max_days    == IF is_leap THEN 6 ELSE 5
            leap_status == IF is_leap THEN "leap year" ELSE "non-leap year"
        IN  IF date > max_days THEN
                Message("Invalid Ethiopian date: Pagume (month 13) has only {max_days} days in {leap_status} {year}, but day {date} was provided.",
                        <<max_days, year, date>>, <<leap_status>>)
            ELSE None

_validate_ethiopian_date(year, month, date) ==
    IF year <= 0 THEN
        Message("Invalid Ethiopian year: {year}. Year must be a positive integer.",
                <<year>>, <<>>)
    ELSE IF month <= 0 THEN
        Message("Invalid Ethiopian month: {month}. Month must be between 1 and 13.",
                <<month>>, <<>>)
    ELSE IF date <= 0 THEN
        Message("Invalid Ethiopian day: {date}. Day must be a positive integer.",
                <<date>>, <<>>)
    ELSE IF month > 13 THEN
        Message("Invalid Ethiopian month: {month}. Ethiopian calendar has only 13 months (1-13).",
                <<month>>, <<>>)
    ELSE IF month <= 12 THEN
        IF date > 30 THEN
            Message("Invalid Ethiopian date: Month {month} has only 30 days, but day {date} was provided.",
                    <<month, date>>, <<>>)
        ELSE None
    ELSE
        LET is_leap     == _is_ethiopian_leap_year(year)
            max_days    == IF is_leap THEN 6 ELSE 5
            leap_status == IF is_leap THEN "leap year" ELSE "non-leap year"
        IN  IF date > max_days THEN
                Message("Invalid Ethiopian date: Pagume (month 13) has only {max_days} days in {leap_status} {year}, but day {date} was provided.",
                        <<max_days, year, date>>, <<leap_status>>)
            ELSE None

month_names ==
    List(<<"", "January", "February", "March", "April", "May", "June",
           "July", "August", "September", "October", "November", "December">>)

\* Variant: September is given 31 days.
days_in_month_september31(year) ==
    LET table == List(<<0, 31, 28, 31, 30, 31, 30, 31, 31, 31, 31, 30, 31>>)
    IN  IF _is_gregorian_leap_year(year) THEN [table EXCEPT ![2] = 29] ELSE table

\* days_in_month after the leap-year adjustment.
days_in_month(year) ==
    LET table == List(<<0, 31, 28, 31, 30, 31, 30, 31, 31, 30, 31, 30, 31>>)
    IN  IF _is_gregorian_leap_year(year) THEN [table EXCEPT ![2] = 29] ELSE table

\* Variant: the gap ends one day early (date < 14 for date <= 14).
InCalendarGap_short(year, month, date) ==
    year = 1582 /\ month = 10 /\ 5 <= date /\ date < 14

\* The dates skipped during the Gregorian calendar adoption.
InCalendarGap(year, month, date) ==
    year = 1582 /\ month = 10 /\ 5 <= date /\ date <= 14

_validate_gregorian_date(year, month, date) ==
    IF year <= 0 THEN
        Message("Invalid Gregorian year: {year}. Year must be a positive integer.",
                <<year>>, <<>>)
    ELSE IF month <= 0 THEN
        Message("Invalid Gregorian month: {month}. Month must be between 1 and 12.",
                <<month>>, <<>>)
    ELSE IF date <= 0 THEN
        Message("Invalid Gregorian day: {date}. Day must be a positive integer.",
                <<date>>, <<>>)
    ELSE IF month > 12 THEN
        Message("Invalid Gregorian month: {month}. Gregorian calendar has only 12 months (1-12).",
                <<month>>, <<>>)
    ELSE
        LET max_days  == days_in_month(year)[month]
            leap_info == IF month = 2
                         THEN IF _is_gregorian_leap_year(year)
                              THEN " (leap year)" ELSE " (non-leap year)"
                         ELSE ""
        IN  IF InCalendarGap(year, month, date) THEN
                Message("Invalid Gregorian date: October 5-14, 1582 do not exist. These dates were skipped during the adoption of the Gregorian calendar.",
                        <<>>, <<>>)
            ELSE IF date > max_days THEN
                Message("Invalid Gregorian date: {month_name} has only {max_days} days in {year}{leap_info}, but day {date} was provided.",
                        <<max_days, year, date>>, <<month_names[month], leap_info>>)
            ELSE None

----------------------------------------------------------------------------
(* Outcomes of a call: a returned value or a raised ValueError.            *)

\* A validator returns its message (None for a valid date).
ReturnMessage(msg) == [kind |-> "return", msg |-> msg, value |-> <<>>]

\* A conversion returns a (year, month, day) triple.
ReturnDate(year, month, day) ==
    [kind |-> "return", msg |-> None, value |-> <<year, month, day>>]

\* raise ValueError(msg): nothing is returned.
ValueError(msg) == [kind |-> "ValueError", msg |-> msg, value |-> <<>>]

\* Before any call.
NoOutcome == [kind |-> "none", msg |-> None, value |-> <<>>]

\* datetime.date(year, month, day) of the standard library: the proleptic
\* Gregorian date, or ValueError when a field is out of range.
datetime_date(year, month, day) ==
    LET table == List(<<0, 31, 28, 31, 30, 31, 30, 31, 31, 30, 31, 30, 31>>)
        leap  == (year % 4 = 0 /\ year % 100 # 0) \/ year % 400 = 0
        dim   == IF month = 2 /\ leap THEN 29 ELSE table[month]
    IN  IF year < 1 \/ year > 9999 THEN
            ValueError(Message("year {year} is out of range", <<year>>, <<>>))
        ELSE IF month < 1 \/ month > 12 THEN
            ValueError(Message("month must be in 1..12", <<>>, <<>>))
        ELSE IF day < 1 \/ day > dim THEN
            ValueError(Message("day is out of range for month", <<>>, <<>>))
        ELSE ReturnDate(year, month, day)

----------------------------------------------------------------------------
(* Ethiopian -> Gregorian.                                                 *)

\* The loop of to_gregorian from index i on: the slot m it ends at, the
\* value of until it leaves, and whether it ended by break.
RECURSIVE GregorianWalk(_, _, _)
GregorianWalk(gregorian_months, i, until) ==
    IF until <= gregorian_months[i] THEN
        [m |-> i, until |-> until, broke |-> TRUE]
    ELSE IF i = 13 THEN
        [m |-> i, until |-> until - gregorian_months[i], broke |-> FALSE]
    ELSE GregorianWalk(gregorian_months, i + 1, until - gregorian_months[i])

\* Variant: the historical branch is dropped, every date takes the
\* new-year offset.
GregorianElapsed_no_historical(year, month, date) ==
    LET new_year_day == _start_day_of_ethiopian(year)
        next_year    == (year + 7) + 1
        months0      == List(<<0, 30, 31, 30, 31, 31, 28, 31, 30, 31, 30, 31, 31, 30>>)
        months1      == IF _is_gregorian_leap_year(next_year)
                        THEN [months0 EXCEPT ![6] = 29] ELSE months0
        until0       == ((month - 1) * 30) + date
        until1       == until0 + (new_year_day - 1)
        until2       == IF (year - 1) % 4 = 3 THEN until1 + 1 ELSE until1
    IN  [until |-> until2, gregorian_months |-> months1, historical |-> FALSE]

\* Variant: the historical branch ends a year early (year < 1575).
GregorianElapsed_before_1575(year, month, date) ==
    LET new_year_day == _start_day_of_ethiopian(year)
        next_year    == (year + 7) + 1
        months0      == List(<<0, 30, 31, 30, 31, 31, 28, 31, 30, 31, 30, 31, 31, 30>>)
        months1      == IF _is_gregorian_leap_year(next_year)
                        THEN [months0 EXCEPT ![6] = 29] ELSE months0
        until0       == ((month - 1) * 30) + date
        historical   == until0 <= 37 /\ year < 1575
        until1       == IF historical THEN until0 + 28
                        ELSE until0 + (new_year_day - 1)
        months2      == IF historical THEN [months1 EXCEPT ![0] = 31] ELSE months1
        until2       == IF (year - 1) % 4 = 3 THEN until1 + 1 ELSE until1
    IN  [until |-> until2, gregorian_months |-> months2, historical |-> historical]

\* Variant: the whole new-year offset is added (no "- 1").
GregorianElapsed_whole_offset(year, month, date) ==
    LET new_year_day == _start_day_of_ethiopian(year)
        next_year    == (year + 7) + 1
        months0      == List(<<0, 30, 31, 30, 31, 31, 28, 31, 30, 31, 30, 31, 31, 30>>)
        months1      == IF _is_gregorian_leap_year(next_year)
                        THEN [months0 EXCEPT ![6] = 29] ELSE months0
        until0       == ((month - 1) * 30) + date
        historical   == until0 <= 37 /\ year <= 1575
        until1       == IF historical THEN until0 + 28
                        ELSE until0 + new_year_day
        months2      == IF historical THEN [months1 EXCEPT ![0] = 31] ELSE months1
        until2       == IF (year - 1) % 4 = 3 THEN until1 + 1 ELSE until1
    IN  [until |-> until2, gregorian_months |-> months2, historical |-> historical]

\* Elapsed days and the month table after the two adjustments
\* (historical branch or new-year offset, then the leap day).
GregorianElapsed(year, month, date) ==
    LET new_year_day == _start_day_of_ethiopian(year)
        next_year    == (year + 7) + 1
        months0      == List(<<0, 30, 31, 30, 31, 31, 28, 31, 30, 31, 30, 31, 31, 30>>)
        months1      == IF _is_gregorian_leap_year(next_year)
                        THEN [months0 EXCEPT ![6] = 29] ELSE months0
        until0       == ((month - 1) * 30) + date
        historical   == until0 <= 37 /\ year <= 1575
        until1       == IF historical THEN until0 + 28
                        ELSE until0 + (new_year_day - 1)
        months2      == IF historical THEN [months1 EXCEPT ![0] = 31] ELSE months1
        until2       == IF (year - 1) % 4 = 3 THEN until1 + 1 ELSE until1
    IN  [until |-> until2, gregorian_months |-> months2, historical |-> historical]

\* Variant: the rotation starts at September, slot 0 included.
gregorian_order_september_first ==
    List(<<9, 9, 10, 11, 12, 1, 2, 3, 4, 5, 6, 7, 8, 9>>)

gregorian_order == List(<<8, 9, 10, 11, 12, 1, 2, 3, 4, 5, 6, 7, 8, 9>>)

to_gregorian(year, month, date) ==
    LET error_msg == _validate_ethiopian_date(year, month, date)
    IN  IF error_msg # None THEN ValueError(error_msg)
        ELSE
          LET e              == GregorianElapsed(year, month, date)
              w              == GregorianWalk(e.gregorian_months, 0, e.until)
              gregorian_date == IF w.broke THEN w.until ELSE e.until
              gregorian_year == IF w.m > 4 THEN (year + 7) + 1 ELSE year + 7
              gregorian_month == gregorian_order[w.m]
          IN  datetime_date(gregorian_year, gregorian_month, gregorian_date)

----------------------------------------------------------------------------
(* Gregorian -> Ethiopian.                                                 *)

\* sum of gregorian_months[i] for i in range(1, month)
RECURSIVE DaysBefore(_, _)
DaysBefore(gregorian_months, month) ==
    IF month <= 1 THEN 0
    ELSE DaysBefore(gregorian_months, month - 1) + gregorian_months[month - 1]

\* The loop of to_ethiopian from index m on.
RECURSIVE EthiopianWalk(_, _, _)
EthiopianWalk(ethiopian_months, m, until) ==
    IF until <= ethiopian_months[m] THEN
        [m |-> m, until |-> until, broke |-> TRUE]
    ELSE IF m = 14 THEN
        [m |-> m, until |-> until - ethiopian_months[m], broke |-> FALSE]
    ELSE EthiopianWalk(ethiopian_months, m + 1, until - ethiopian_months[m])

\* Elapsed days, tahissas and the month table before the walk.
EthiopianElapsed(year, month, date) ==
    LET g0             == List(<<0, 31, 28, 31, 30, 31, 30, 31, 31, 30, 31, 30, 31>>)
        gregorian_months == IF _is_gregorian_leap_year(year)
                          THEN [g0 EXCEPT ![2] = 29] ELSE g0
        e0             == List(<<0, 30, 30, 30, 30, 30, 30, 30, 30, 30, 5, 30, 30, 30, 30>>)
        ethiopian_year == year - 8
        e1             == IF _is_ethiopian_leap_year(ethiopian_year)
                          THEN [e0 EXCEPT ![10] = 6] ELSE [e0 EXCEPT ![10] = 5]
        new_year_day   == _start_day_of_ethiopian(year - 8)
        until          == DaysBefore(gregorian_months, month) + date
        tahissas0      == IF ethiopian_year % 4 = 0 THEN 26 ELSE 25
        before_reform  == year < 1582 \/ (until <= 277 /\ year = 1582)
        tahissas       == IF before_reform THEN tahissas0 ELSE new_year_day - 3
        e2             == IF before_reform
                          THEN [e1 EXCEPT ![1] = 0, ![2] = tahissas0]
                          ELSE [e1 EXCEPT ![1] = tahissas]
    IN  [until |-> until, tahissas |-> tahissas, ethiopian_months |-> e2,
         ethiopian_year |-> ethiopian_year]

ethiopian_order == List(<<0, 4, 5, 6, 7, 8, 9, 10, 11, 12, 13, 1, 2, 3, 4>>)

to_ethiopian(year, month, date) ==
    LET error_msg == _validate_gregorian_date(year, month, date)
    IN  IF error_msg # None THEN ValueError(error_msg)
        ELSE
          LET e  == EthiopianElapsed(year, month, date)
              w  == EthiopianWalk(e.ethiopian_months, 1, e.until)
              ethiopian_date ==
                  IF w.broke THEN
                      IF w.m = 1 \/ e.ethiopian_months[w.m] = 0
                      THEN w.until + (30 - e.tahissas) ELSE w.until
                  ELSE e.until
              ethiopian_year  == IF w.m > 10 THEN e.ethiopian_year + 1
                                 ELSE e.ethiopian_year
              ethiopian_month == ethiopian_order[w.m]
          IN  ReturnDate(ethiopian_year, ethiopian_month, ethiopian_date)

\* A call of a class method of the converter.
Call(fn, year, month, date) ==
    [fn |-> fn, year |-> year, month |-> month, date |-> date]

----------------------------------------------------------------------------
(* The user store of the bot (bot.py, "User persistence").                 *)
(* A dict is a function from its keys; a user record is a dict with the    *)
(* keys "t", "u", "n".  An optional string (username, first_name) is <<>>  *)
(* for None and <<s>> for the string s.                                    *)

MaxUserId == 2      \* user ids are 1..MaxUserId
MaxTime   == 2      \* time.time() gives 1..MaxTime

UserIds    == 1..MaxUserId
Timestamps == 1..MaxTime

\* What Telegram reports of a user: both names, or no username and an
\* empty first name.
Profiles ==
    { [username |-> <<"abebe">>, first_name |-> <<"Abebe">>],
      [username |-> <<>>, first_name |-> <<"">>] }

\* {}
EmptyDict == [k \in {} |-> 0]

\* d[k] = v
Put(d, k, v) == [x \in (DOMAIN d) \cup {k} |-> IF x = k THEN v ELSE d[x]]

\* str(n) of a non-negative int
RECURSIVE str(_)
str(n) ==
    IF n < 10 THEN <<"0", "1", "2", "3", "4", "5", "6", "7", "8", "9">>[n + 1]
    ELSE str(n \div 10) \o str(n % 10)

\* "if username:" - neither None nor the empty string
Truthy(optional) == optional # <<>> /\ optional[1] # ""

\* load_users(): the cache when there is one, else what users.json holds.
\* (A missing or unreadable file reads as {}, which is how an empty
\* users_file reads too.)
load_users == IF _users_cache # None THEN _users_cache ELSE users_file

\* Variant: no "if key in users" test, the record is written every time.
add_user_overwrite(users, user_id, username, first_name, now) ==
    LET key     == str(user_id)
        record0 == Put(EmptyDict, "t", now)
        record1 == IF Truthy(username) THEN Put(record0, "u", username[1])
                   ELSE record0
        record2 == IF Truthy(first_name) THEN Put(record1, "n", first_name[1])
                   ELSE record1
    IN  [users |-> Put(users, key, record2), saved |-> TRUE,
         value |-> key \notin DOMAIN users]

\* add_user on the loaded dict users: the dict afterwards, whether
\* save_users was called, and the value returned.
add_user(users, user_id, username, first_name, now) ==
    LET key     == str(user_id)
        record0 == Put(EmptyDict, "t", now)
        record1 == IF Truthy(username) THEN Put(record0, "u", username[1])
                   ELSE record0
        record2 == IF Truthy(first_name) THEN Put(record1, "n", first_name[1])
                   ELSE record1
    IN  IF key \in DOMAIN users
        THEN [users |-> users, saved |-> FALSE, value |-> FALSE]
        ELSE [users |-> Put(users, key, record2), saved |-> TRUE,
              value |-> TRUE]

\* get_user_count()
get_user_count == Cardinality(DOMAIN load_users)

\* The result of a call on the store.
Returned(fn, user_id, value) ==
    [fn |-> fn, user_id |-> user_id, value |-> value]

\* A fresh process over an empty store.
StoreInit ==
    /\ _users_cache = None
    /\ users_file = EmptyDict
    /\ added = {}
    /\ returned = Returned("none", 0, 0)

\* The store part of a call add_user(user_id, username, first_name) at time
\* now; written tells whether save_users got the payload out (its errors
\* are printed and swallowed).
AddUserStep(user_id, username, first_name, now, written) ==
    LET r == add_user(load_users, user_id, username, first_name, now)
    IN  /\ _users_cache' = r.users
        /\ users_file' = IF r.saved /\ written THEN r.users ELSE users_file
        /\ added' = added \cup {user_id}
        /\ returned' = Returned("add_user", user_id, r.value)

----------------------------------------------------------------------------
(* The Telegram bot (bot.py), seen from one chat.                          *)
(* A message is the key of its template in TEXT, the language of the       *)
(* template, the values substituted into it and the keyboard under it.     *)
(* Amharic strings are spelled in ASCII.  A text the user types is the     *)
(* list of its parts between slashes (text.split("/")); a part is a number *)
(* or a word, with or without a digit in it.  Callback data is the list    *)
(* data.split(":").  /stats and /users (administrator commands) are left   *)
(* out.                                                                    *)

ETH_MONTHS_AM ==
    List(<<"Meskerem (am)", "Tikimt (am)", "Hidar (am)", "Tahsas (am)",
           "Tir (am)", "Yekatit (am)", "Megabit (am)", "Miyazia (am)",
           "Ginbot (am)", "Sene (am)", "Hamle (am)", "Nehase (am)",
           "Pagume (am)">>)

ETH_MONTHS_EN ==
    List(<<"Meskerem", "Tikimt", "Hidar", "Tahsas",
           "Tir", "Yekatit", "Megabit", "Miyazia",
           "Ginbot", "Sene", "Hamle", "Nehase", "Pagume">>)

GREG_MONTHS ==
    List(<<"January", "February", "March", "April", "May", "June",
           "July", "August", "September", "October", "November", "December">>)

ETH_TO_GREG_MONTH_NAME ==
    [m \in 1..13 |->
        <<"September", "October", "November", "December", "January",
          "February", "March", "April", "May", "June", "July", "August",
          "Pagume">>[m]]

ETH_WEEKDAYS_AM ==
    List(<<"Monday (am)", "Tuesday (am)", "Wednesday (am)", "Thursday (am)",
           "Friday (am)", "Saturday (am)", "Sunday (am)">>)

ETH_WEEKDAYS_EN ==
    List(<<"Monday", "Tuesday", "Wednesday", "Thursday", "Friday",
           "Saturday", "Sunday">>)

\* The holidays by (month, day), under their English names.
ETH_HOLIDAYS ==
    [key \in {<<1, 1>>, <<1, 17>>, <<5, 11>>, <<4, 29>>, <<6, 23>>} |->
        CASE key = <<1, 1>>  -> "Ethiopian New Year (Enkutatash)"
          [] key = <<1, 17>> -> "Meskel (Finding of the True Cross)"
          [] key = <<5, 11>> -> "Timkat (Ethiopian Epiphany)"
          [] key = <<4, 29>> -> "Leddet (Ethiopian Christmas)"
          [] key = <<6, 23>> -> "Adwa Victory Day"]

EXAMPLE_DATE == [E2G |-> "2017/4/27", G2E |-> "2025/1/5"]

\* The two examples of the help text (TEXT["en"]["help"]): what is typed
\* and what the text says it converts to.
HelpExamples ==
    [E2G |-> [typed |-> <<2017, 4, 27>>, result |-> "January 5, 2025"],
     G2E |-> [typed |-> <<2025, 1, 5>>, result |-> "27 Miyazia 2017"]]

\* list[i] of Python: a negative index counts from the end.
Index(list, i) ==
    IF i < 0 THEN list[i + Cardinality(DOMAIN list)] ELSE list[i]

\* d.pop(k, None)
Pop(d, k) == [x \in (DOMAIN d) \ {k} |-> d[x]]

\* d.get(k, default)
Get(d, k, default) == IF k \in DOMAIN d THEN d[k] ELSE default

format_ethiopian(eth_y, eth_m, eth_d) ==
    LET am_month   == Index(ETH_MONTHS_AM, eth_m - 1)
        en_month   == Index(ETH_MONTHS_EN, eth_m - 1)
        greg_month == ETH_TO_GREG_MONTH_NAME[eth_m]
    IN  Message("{eth_d} {am_month} ({en_month}) ({greg_month}) {eth_y} E.C.",
                <<eth_d, eth_y>>, <<am_month, en_month, greg_month>>)

format_gregorian(y, m, d) ==
    Message("{GREG_MONTHS[m - 1]} {d}, {y}", <<d, y>>,
            <<Index(GREG_MONTHS, m - 1)>>)

\* The holiday name in the language asked for, as a list of at most one
\* message (empty for None).
get_holiday_for_eth_date(eth_m, eth_d, lang) ==
    IF <<eth_m, eth_d>> \in DOMAIN ETH_HOLIDAYS
    THEN <<Message(ETH_HOLIDAYS[<<eth_m, eth_d>>], <<>>, <<lang>>)>>
    ELSE <<>>

\* The clock of get_today_both_calendars: a Gregorian date with its
\* datetime.weekday().  2025-01-07 is Leddet, 2017/4/29.
Todays ==
    { [date |-> <<2025, 1, 5>>, weekday |-> 6],
      [date |-> <<2025, 1, 7>>, weekday |-> 1] }

get_today_both_calendars(now) ==
    LET both(e) ==
            [greg_str   |-> format_gregorian(now.date[1], now.date[2],
                                             now.date[3]),
             eth_str    |-> format_ethiopian(e[1], e[2], e[3]),
             weekday_en |-> ETH_WEEKDAYS_EN[now.weekday],
             weekday_am |-> ETH_WEEKDAYS_AM[now.weekday],
             eth_month  |-> e[2],
             eth_day    |-> e[3]]
    IN  both(to_ethiopian(now.date[1], now.date[2], now.date[3]).value)

lang_of(data) == Get(data, "lang", "en")

\* Keyboards, by the callback data of their buttons.
Keyboard(name, lang, buttons) ==
    [name |-> name, lang |-> lang, buttons |-> buttons]

lang_keyboard ==
    Keyboard("lang_keyboard", "", {<<"lang", "en">>, <<"lang", "am">>})

main_keyboard(lang) ==
    Keyboard("main_keyboard", lang,
             {<<"mode", "E2G">>, <<"mode", "G2E">>,
              <<"action", "today">>, <<"action", "holidays">>,
              <<"action", "help">>, <<"action", "changelang">>})

cancel_keyboard(lang) ==
    Keyboard("cancel_keyboard", lang, {<<"action", "cancel">>})

after_result_keyboard(lang) ==
    Keyboard("after_result_keyboard", lang,
             {<<"action", "convert_again">>, <<"action", "cancel">>})

\* reply(update, TEXT[lang][text].format(*args), keyboard)
Reply(text, lang, args, keyboard) ==
    [text |-> text, lang |-> lang, args |-> args, keyboard |-> keyboard]

\* Nothing sent yet.
NoReply == Reply("none", "", <<>>, Keyboard("none", "", {}))

\* What a handler leaves: the session and the message it sent.
Handled(data, message) == [user_data |-> data, sent |-> message]

\* The text of today_command and of the "action:today" button.
TodayReply(lang, now, keyboard) ==
    LET text(today) ==
            LET weekday == IF lang = "am" THEN today.weekday_am
                           ELSE today.weekday_en
                holiday == get_holiday_for_eth_date(today.eth_month,
                                                    today.eth_day, lang)
            IN  Reply("today", lang,
                      <<today.greg_str, today.eth_str,
                        Message(weekday, <<>>, <<>>)>> \o holiday,
                      keyboard)
    IN  text(get_today_both_calendars(now))

\* The parts of a typed text.
Number(n)   == [int |-> TRUE, n |-> n, digit |-> TRUE]
Word(digit) == [int |-> FALSE, n |-> 0, digit |-> digit]

MaxParts == 4       \* the longest text typed has MaxParts parts

TypedYears  == {0, 2017, 2025, 9999}
TypedMonths == {1, 4, 13}
TypedDays   == {5, 27, 29}

\* The texts typed: dates in the YEAR/MONTH/DAY form, and texts that are
\* not: a word, a number alone, words or numbers with too few or too many
\* slashes, parts that are not numbers.
Texts ==
    {<<Number(y), Number(m), Number(d)>> :
        y \in TypedYears, m \in TypedMonths, d \in TypedDays}
    \cup {<<Word(FALSE)>>, <<Word(TRUE)>>, <<Number(2017)>>,
          <<Word(FALSE), Word(FALSE)>>, <<Number(2017), Number(4)>>,
          <<Word(FALSE), Word(FALSE), Word(FALSE)>>,
          <<Number(2017), Word(FALSE), Number(27)>>,
          <<Number(2017), Number(4), Word(TRUE)>>}
    \cup {[i \in 1..n |-> Number(1)] : n \in 4..MaxParts}

\* "/" in text and any(ch.isdigit() for ch in text)
looks_like_date(text) ==
    Len(text) >= 2 /\ \E i \in 1..Len(text) : text[i].digit

parse_slash_date(text) ==
    IF Len(text) # 3 THEN
        ValueError(Message("must have exactly 3 parts", <<>>, <<>>))
    ELSE IF \E i \in 1..3 : ~text[i].int THEN
        ValueError(Message("must be numbers", <<>>, <<>>))
    ELSE ReturnDate(text[1].n, text[2].n, text[3].n)

\* "3 parts" in msg or "must be numbers" in msg.  Of the messages that reach
\* the test (parse_slash_date's, the validators', datetime.date's) only the
\* two of parse_slash_date hold one of the substrings.
IsFormatMessage(msg) ==
    msg.text \in {"must have exactly 3 parts", "must be numbers"}

\* Variant: a conversion leaves the mode set.
handle_text_keeps_mode(data, text) ==
    LET lang == lang_of(data)
    IN  IF "lang" \notin DOMAIN data THEN
            Handled(data, Reply("unrecognised_lang", "en", <<>>, lang_keyboard))
        ELSE IF "mode" \notin DOMAIN data THEN
            Handled(data, Reply("unrecognised_mode", lang, <<>>,
                                main_keyboard(lang)))
        ELSE
          LET mode    == data["mode"]
              example == Message(EXAMPLE_DATE[mode], <<>>, <<>>)
              parsed  == parse_slash_date(text)
              raised(msg) ==
                  IF IsFormatMessage(msg)
                  THEN Handled(data, Reply("format_error", lang, <<example>>,
                                           cancel_keyboard(lang)))
                  ELSE Handled(data, Reply("conversion_error", lang, <<msg>>,
                                           cancel_keyboard(lang)))
          IN  IF ~looks_like_date(text) THEN
                  Handled(data, Reply("unrecognised_date", lang, <<example>>,
                                      cancel_keyboard(lang)))
              ELSE IF parsed.kind = "ValueError" THEN raised(parsed.msg)
              ELSE
                LET y == parsed.value[1]
                    m == parsed.value[2]
                    d == parsed.value[3]
                    answer(converted) ==
                      IF converted.kind = "ValueError" THEN raised(converted.msg)
                      ELSE
                        LET r        == converted.value
                            eth_str  == IF mode = "E2G"
                                        THEN format_ethiopian(y, m, d)
                                        ELSE format_ethiopian(r[1], r[2], r[3])
                            greg_str == IF mode = "E2G"
                                        THEN format_gregorian(r[1], r[2], r[3])
                                        ELSE format_gregorian(y, m, d)
                            holiday  == IF mode = "E2G"
                                        THEN get_holiday_for_eth_date(m, d, lang)
                                        ELSE get_holiday_for_eth_date(r[2], r[3],
                                                                      lang)
                            result   == IF mode = "E2G"
                                        THEN Reply("e2g", lang,
                                                   <<eth_str, greg_str>> \o holiday,
                                                   after_result_keyboard(lang))
                                        ELSE Reply("g2e", lang,
                                                   <<greg_str, eth_str>> \o holiday,
                                                   after_result_keyboard(lang))
                        IN  Handled(Put(data, "last_mode", mode), result)
                IN  answer(IF mode = "E2G" THEN to_gregorian(y, m, d)
                           ELSE to_ethiopian(y, m, d))

\* Variant: a text that does not look like a date goes to the parser too.
handle_text_no_screen(data, text) ==
    LET lang == lang_of(data)
    IN  IF "lang" \notin DOMAIN data THEN
            Handled(data, Reply("unrecognised_lang", "en", <<>>, lang_keyboard))
        ELSE IF "mode" \notin DOMAIN data THEN
            Handled(data, Reply("unrecognised_mode", lang, <<>>,
                                main_keyboard(lang)))
        ELSE
          LET mode    == data["mode"]
              example == Message(EXAMPLE_DATE[mode], <<>>, <<>>)
              parsed  == parse_slash_date(text)
              raised(msg) ==
                  IF IsFormatMessage(msg)
                  THEN Handled(data, Reply("format_error", lang, <<example>>,
                                           cancel_keyboard(lang)))
                  ELSE Handled(data, Reply("conversion_error", lang, <<msg>>,
                                           cancel_keyboard(lang)))
          IN  IF parsed.kind = "ValueError" THEN raised(parsed.msg)
              ELSE
                LET y == parsed.value[1]
                    m == parsed.value[2]
                    d == parsed.value[3]
                    answer(converted) ==
                      IF converted.kind = "ValueError" THEN raised(converted.msg)
                      ELSE
                        LET r        == converted.value
                            eth_str  == IF mode = "E2G"
                                        THEN format_ethiopian(y, m, d)
                                        ELSE format_ethiopian(r[1], r[2], r[3])
                            greg_str == IF mode = "E2G"
                                        THEN format_gregorian(r[1], r[2], r[3])
                                        ELSE format_gregorian(y, m, d)
                            holiday  == IF mode = "E2G"
                                        THEN get_holiday_for_eth_date(m, d, lang)
                                        ELSE get_holiday_for_eth_date(r[2], r[3],
                                                                      lang)
                            result   == IF mode = "E2G"
                                        THEN Reply("e2g", lang,
                                                   <<eth_str, greg_str>> \o holiday,
                                                   after_result_keyboard(lang))
                                        ELSE Reply("g2e", lang,
                                                   <<greg_str, eth_str>> \o holiday,
                                                   after_result_keyboard(lang))
                        IN  Handled(Pop(Put(data, "last_mode", mode), "mode"),
                                    result)
                IN  answer(IF mode = "E2G" THEN to_gregorian(y, m, d)
                           ELSE to_ethiopian(y, m, d))

\* handle_text on the session data.  (except Exception is not reached: with
\* the numbers typed here nothing but ValueError is raised.)
handle_text(data, text) ==
    LET lang == lang_of(data)
    IN  IF "lang" \notin DOMAIN data THEN
            Handled(data, Reply("unrecognised_lang", "en", <<>>, lang_keyboard))
        ELSE IF "mode" \notin DOMAIN data THEN
            Handled(data, Reply("unrecognised_mode", lang, <<>>,
                                main_keyboard(lang)))
        ELSE
          LET mode    == data["mode"]
              example == Message(EXAMPLE_DATE[mode], <<>>, <<>>)
              parsed  == parse_slash_date(text)
              raised(msg) ==
                  IF IsFormatMessage(msg)
                  THEN Handled(data, Reply("format_error", lang, <<example>>,
                                           cancel_keyboard(lang)))
                  ELSE Handled(data, Reply("conversion_error", lang, <<msg>>,
                                           cancel_keyboard(lang)))
          IN  IF ~looks_like_date(text) THEN
                  Handled(data, Reply("unrecognised_date", lang, <<example>>,
                                      cancel_keyboard(lang)))
              ELSE IF parsed.kind = "ValueError" THEN raised(parsed.msg)
              ELSE
                LET y == parsed.value[1]
                    m == parsed.value[2]
                    d == parsed.value[3]
                    answer(converted) ==
                      IF converted.kind = "ValueError" THEN raised(converted.msg)
                      ELSE
                        LET r        == converted.value
                            eth_str  == IF mode = "E2G"
                                        THEN format_ethiopian(y, m, d)
                                        ELSE format_ethiopian(r[1], r[2], r[3])
                            greg_str == IF mode = "E2G"
                                        THEN format_gregorian(r[1], r[2], r[3])
                                        ELSE format_gregorian(y, m, d)
                            holiday  == IF mode = "E2G"
                                        THEN get_holiday_for_eth_date(m, d, lang)
                                        ELSE get_holiday_for_eth_date(r[2], r[3],
                                                                      lang)
                            result   == IF mode = "E2G"
                                        THEN Reply("e2g", lang,
                                                   <<eth_str, greg_str>> \o holiday,
                                                   after_result_keyboard(lang))
                                        ELSE Reply("g2e", lang,
                                                   <<greg_str, eth_str>> \o holiday,
                                                   after_result_keyboard(lang))
                        IN  Handled(Pop(Put(data, "last_mode", mode), "mode"),
                                    result)
                IN  answer(IF mode = "E2G" THEN to_gregorian(y, m, d)
                           ELSE to_ethiopian(y, m, d))

\* The prompt for a date of the given direction.
AskReply(lang, mode) ==
    Reply(IF mode = "E2G" THEN "ask_e" ELSE "ask_g", lang, <<>>,
          cancel_keyboard(lang))

\* handle_callback on the session data; data_ is query.data.split(":").
handle_callback(data, data_, now) ==
    LET lang == lang_of(data)
    IN  IF data_[1] = "lang" THEN
            Handled(Put(data, "lang", data_[2]),
                    Reply("choose", data_[2], <<>>, main_keyboard(data_[2])))
        ELSE IF data_[1] = "mode" THEN
            Handled(Put(data, "mode", data_[2]), AskReply(lang, data_[2]))
        ELSE IF data_ = <<"action", "today">> THEN
            Handled(data, TodayReply(lang, now, main_keyboard(lang)))
        ELSE IF data_ = <<"action", "holidays">> THEN
            Handled(data, Reply("holidays", lang,
                                <<Message("build_holidays_text", <<>>, <<lang>>)>>,
                                main_keyboard(lang)))
        ELSE IF data_ = <<"action", "help">> THEN
            Handled(data, Reply("help", lang, <<>>, main_keyboard(lang)))
        ELSE IF data_ = <<"action", "changelang">> THEN
            Handled(EmptyDict, Reply("change_language", "en", <<>>, lang_keyboard))
        ELSE IF data_ = <<"action", "cancel">> THEN
            Handled(Pop(data, "mode"),
                    Reply("cancelled", lang, <<>>, main_keyboard(lang)))
        ELSE IF data_ = <<"action", "convert_again">> THEN
            LET mode == Get(data, "last_mode", "E2G")
            IN  Handled(Put(data, "mode", mode), AskReply(lang, mode))
        ELSE Handled(data, sent)

\* help_command
help_command(data) ==
    LET lang == lang_of(data)
        kb   == IF "lang" \in DOMAIN data THEN main_keyboard(lang)
                ELSE lang_keyboard
    IN  Handled(data, Reply("help", lang, <<>>, kb))

\* today_command
today_command(data, now) ==
    LET lang == lang_of(data)
        kb   == IF "lang" \in DOMAIN data THEN main_keyboard(lang)
                ELSE lang_keyboard
    IN  Handled(data, TodayReply(lang, now, kb))

\* The user of the chat, as Telegram reports them in every update.
EffectiveUser ==
    [id |-> 1, username |-> <<"abebe">>, first_name |-> <<"Abebe">>]

\* An update: a command, a pressed button with its callback data, or a
\* text with its parts.
Update(kind, data) == [kind |-> kind, data |-> data]

\* A chat nothing was sent to yet.
BotInit ==
    /\ update = Update("none", <<>>)
    /\ user_data = EmptyDict
    /\ sent = NoReply
    /\ shown = {}

\* The session and the chat after a handler has handled an update.
Deliver(handled_update, handled) ==
    /\ update' = handled_update
    /\ user_data' = handled.user_data
    /\ sent' = handled.sent
    /\ shown' = shown \cup handled.sent.keyboard.buttons

----------------------------------------------------------------------------
(* The migration of users.json (user_migrate.py).                          *)
(* A record is a dict from its keys to JSON values, each written as its    *)
(* JSON text: "null", "0", "\"abebe\"".  The sizes main() prints are left  *)
(* out.                                                                    *)

MaxRuns == 3        \* the script is run at most MaxRuns times

\* bool(value) of a JSON value
JsonTruthy(value) == value \notin {"null", "false", "0", "\"\"", "[]", "{}"}

\* Variant: keeping an existing "u" counts as a change.
migrate_record_u_changes(uid, old) ==
    LET new_t == IF "t" \in DOMAIN old THEN Put(EmptyDict, "t", old["t"])
                 ELSE Put(EmptyDict, "t", "0")
        copy_u == /\ "u" \notin DOMAIN old
                  /\ "username" \in DOMAIN old
                  /\ JsonTruthy(old["username"])
                  /\ old["username"] # "\"N/A\""
        new_u == IF "u" \in DOMAIN old THEN Put(new_t, "u", old["u"])
                 ELSE IF copy_u THEN Put(new_t, "u", old["username"])
                 ELSE new_t
        copy_n == /\ "n" \notin DOMAIN old
                  /\ "first_name" \in DOMAIN old
                  /\ JsonTruthy(old["first_name"])
                  /\ old["first_name"] # "\"N/A\""
        new_n == IF "n" \in DOMAIN old THEN Put(new_u, "n", old["n"])
                 ELSE IF copy_n THEN Put(new_u, "n", old["first_name"])
                 ELSE new_u
        changed == \/ "t" \notin DOMAIN old
                   \/ "u" \in DOMAIN old
                   \/ copy_u
                   \/ copy_n
                   \/ \E k \in {"username", "first_name", "user_id"} :
                        k \in DOMAIN old
    IN  [record |-> new_n, changed |-> changed]

\* migrate_record(uid, old): the new record and whether anything changed.
migrate_record(uid, old) ==
    LET new_t == IF "t" \in DOMAIN old THEN Put(EmptyDict, "t", old["t"])
                 ELSE Put(EmptyDict, "t", "0")
        copy_u == /\ "u" \notin DOMAIN old
                  /\ "username" \in DOMAIN old
                  /\ JsonTruthy(old["username"])
                  /\ old["username"] # "\"N/A\""
        new_u == IF "u" \in DOMAIN old THEN Put(new_t, "u", old["u"])
                 ELSE IF copy_u THEN Put(new_t, "u", old["username"])
                 ELSE new_t
        copy_n == /\ "n" \notin DOMAIN old
                  /\ "first_name" \in DOMAIN old
                  /\ JsonTruthy(old["first_name"])
                  /\ old["first_name"] # "\"N/A\""
        new_n == IF "n" \in DOMAIN old THEN Put(new_u, "n", old["n"])
                 ELSE IF copy_n THEN Put(new_u, "n", old["first_name"])
                 ELSE new_u
        changed == \/ "t" \notin DOMAIN old
                   \/ copy_u
                   \/ copy_n
                   \/ \E k \in {"username", "first_name", "user_id"} :
                        k \in DOMAIN old
    IN  [record |-> new_n, changed |-> changed]

\* A dict from the listed keys that have a value: each argument is <<>>
\* (key absent) or <<value>>.
Record(t, u, n, username, first_name, user_id) ==
    LET given == [t |-> t, u |-> u, n |-> n, username |-> username,
                  first_name |-> first_name, user_id |-> user_id]
    IN  [k \in {key \in DOMAIN given : given[key] # <<>>} |-> given[k][1]]

\* The records users.json may hold: written by the old bot (verbose keys,
\* "N/A" or null for a missing name, no timestamp), by the new bot, or
\* half-way between the two.
Records ==
    { Record(t, u, n, username, first_name, user_id) :
        t \in {<<>>, <<"7">>},
        u \in {<<>>, <<"\"abebe\"">>},
        n \in {<<>>, <<"\"Abebe\"">>},
        username \in {<<>>, <<"null">>, <<"\"\"">>, <<"\"N/A\"">>,
                      <<"\"abebe\"">>},
        first_name \in {<<>>, <<"\"N/A\"">>, <<"\"Abebe\"">>},
        user_id \in {<<>>, <<"1">>} }

\* The records of a second user in the file.
SecondRecords ==
    { Record(<<"7">>, <<>>, <<"\"Almaz\"">>, <<>>, <<>>, <<>>),
      Record(<<>>, <<>>, <<>>, <<"\"N/A\"">>, <<"\"Almaz\"">>, <<"2">>),
      Record(<<>>, <<>>, <<>>, <<>>, <<>>, <<>>) }

\* The files the script may find: no user, one user, two users.
UserFiles ==
    {EmptyDict}
        \cup {Put(EmptyDict, "1", r) : r \in Records}
        \cup {Put(Put(EmptyDict, "1", r), "2", q) :
                r \in Records, q \in SecondRecords}

\* The loop of main(): the new users and the two counters.
MigrateAll(users) ==
    LET new_users == [uid \in DOMAIN users |->
                          migrate_record(uid, users[uid]).record]
        migrated  == Cardinality({uid \in DOMAIN users :
                          migrate_record(uid, users[uid]).changed})
    IN  [users |-> users, new_users |-> new_users,
         total |-> Cardinality(DOMAIN users), migrated |-> migrated,
         already_ok |-> Cardinality(DOMAIN users) - migrated]

\* The script is not run.
MigrateIdle ==
    /\ users_json = EmptyDict
    /\ log = <<>>

\* Some users.json is there and the script has not run yet.
MigrateInit ==
    /\ users_json \in UserFiles
    /\ log = <<>>

----------------------------------------------------------------------------
(* Concurrent callers of the converter.                                    *)
(* Each thread runs one call at a time, a few statements per step; the     *)
(* steps of different threads interleave freely.  The month lists of a     *)
(* call are objects of their own, made by the list displays of             *)
(* converter.py:121 and 167-168 each time the method runs.                 *)

MaxThreads == 2     \* threads calling the converter at the same time

Threads == 1..MaxThreads

\* The calls the threads make: between them they take each branch that
\* writes to a list (historical slot 0, leap February, Pagume, tahissas
\* before and after the reform), and one fails.
ConcurrentCalls ==
    { Call("to_gregorian", 1575, 1, 5), Call("to_gregorian", 2016, 6, 1),
      Call("to_gregorian", 2017, 13, 6),
      Call("to_ethiopian", 1500, 6, 1), Call("to_ethiopian", 2024, 3, 1) }

\* The frame of a call: where it is, its arguments, its local integers and
\* what it returned or raised.
Frame(at, c, until, tahissas, result) ==
    [pc |-> at, call |-> c, until |-> until, tahissas |-> tahissas,
     result |-> result]

IdleFrame == Frame("idle", Call("none", 0, 0, 0), 0, 0, NoOutcome)

\* Variant: the lists are attributes of the class, one per method, shared
\* by every call.
LocalLists_class_attribute(thread, fn) == <<1, fn>>

\* The list objects the names gregorian_months and ethiopian_months of a
\* running call refer to: the ones that call made.
LocalLists(thread, fn) == <<thread, fn>>

\* The list displays at the top of the two methods.
NewLists(fn) ==
    IF fn = "to_gregorian"
    THEN [gregorian_months |->
              List(<<0, 30, 31, 30, 31, 31, 28, 31, 30, 31, 30, 31, 31, 30>>),
          ethiopian_months |-> List(<<>>)]
    ELSE [gregorian_months |->
              List(<<0, 31, 28, 31, 30, 31, 30, 31, 31, 30, 31, 30, 31>>),
          ethiopian_months |->
              List(<<0, 30, 30, 30, 30, 30, 30, 30, 30, 30, 5, 30, 30, 30, 30>>)]

\* The leap-year writes: converter.py:123-125 and 170-178.
LeapAdjusted(c, lists) ==
    IF c.fn = "to_gregorian" THEN
        IF _is_gregorian_leap_year((c.year + 7) + 1)
        THEN [lists EXCEPT !.gregorian_months[6] = 29] ELSE lists
    ELSE
        LET g == IF _is_gregorian_leap_year(c.year)
                 THEN [lists.gregorian_months EXCEPT ![2] = 29]
                 ELSE lists.gregorian_months
            e == IF _is_ethiopian_leap_year(c.year - 8)
                 THEN [lists.ethiopian_months EXCEPT ![10] = 6]
                 ELSE [lists.ethiopian_months EXCEPT ![10] = 5]
        IN  [gregorian_months |-> g, ethiopian_months |-> e]

\* The elapsed days with the writes that go with them: converter.py:127-138
\* and 180-200.  Gives the lists, until and tahissas afterwards.
DaysCounted(c, lists) ==
    IF c.fn = "to_gregorian" THEN
        LET new_year_day == _start_day_of_ethiopian(c.year)
            until0       == ((c.month - 1) * 30) + c.date
            historical   == until0 <= 37 /\ c.year <= 1575
            until1       == IF historical THEN until0 + 28
                            ELSE until0 + (new_year_day - 1)
            until2       == IF (c.year - 1) % 4 = 3 THEN until1 + 1 ELSE until1
        IN  [lists    |-> IF historical
                          THEN [lists EXCEPT !.gregorian_months[0] = 31]
                          ELSE lists,
             until    |-> until2,
             tahissas |-> 0]
    ELSE
        LET ethiopian_year == c.year - 8
            new_year_day   == _start_day_of_ethiopian(c.year - 8)
            until          == DaysBefore(lists.gregorian_months, c.month) + c.date
            tahissas0      == IF ethiopian_year % 4 = 0 THEN 26 ELSE 25
            before_reform  == c.year < 1582 \/ (until <= 277 /\ c.year = 1582)
            tahissas       == IF before_reform THEN tahissas0
                              ELSE new_year_day - 3
        IN  [lists    |-> IF before_reform
                          THEN [lists EXCEPT !.ethiopian_months[1] = 0,
                                             !.ethiopian_months[2] = tahissas0]
                          ELSE [lists EXCEPT !.ethiopian_months[1] = tahissas],
             until    |-> until,
             tahissas |-> tahissas]

\* The walk and the return: converter.py:140-157 and 202-220.
Walked(c, lists, until, tahissas) ==
    IF c.fn = "to_gregorian" THEN
        LET w == GregorianWalk(lists.gregorian_months, 0, until)
            gregorian_date == IF w.broke THEN w.until ELSE until
            gregorian_year == IF w.m > 4 THEN (c.year + 7) + 1 ELSE c.year + 7
        IN  datetime_date(gregorian_year, gregorian_order[w.m], gregorian_date)
    ELSE
        LET w == EthiopianWalk(lists.ethiopian_months, 1, until)
            ethiopian_date ==
                IF w.broke THEN
                    IF w.m = 1 \/ lists.ethiopian_months[w.m] = 0
                    THEN w.until + (30 - tahissas) ELSE w.until
                ELSE until
            ethiopian_year == IF w.m > 10 THEN (c.year - 8) + 1 ELSE c.year - 8
        IN  ReturnDate(ethiopian_year, ethiopian_order[w.m], ethiopian_date)

\* No thread calls the converter.
ThreadsIdle ==
    /\ frames = <<>>
    /\ tables = EmptyDict

\* The threads are started and have called nothing.
ThreadsInit ==
    /\ frames = [thread \in Threads |-> IdleFrame]
    /\ tables = EmptyDict

----------------------------------------------------------------------------
(* A caller that converts two Ethiopian dates, the second one a few days   *)
(* after the first, and keeps both outcomes.                               *)

MaxAhead == 2       \* the second date is 1..MaxAhead days after the first

\* The day after a valid Ethiopian date: the first of (year, month, date + 1),
\* (year, month + 1, 1) and (year + 1, 1, 1) that _validate_ethiopian_date
\* accepts.
DayAfter(day) ==
    IF _validate_ethiopian_date(day[1], day[2], day[3] + 1) = None
    THEN <<day[1], day[2], day[3] + 1>>
    ELSE IF _validate_ethiopian_date(day[1], day[2] + 1, 1) = None
    THEN <<day[1], day[2] + 1, 1>>
    ELSE <<day[1] + 1, 1, 1>>

RECURSIVE DaysAfter(_, _)
DaysAfter(day, ahead) ==
    IF ahead = 0 THEN day ELSE DaysAfter(DayAfter(day), ahead - 1)

\* A call and what it returned or raised.
Conversion(made, outcome) == [call |-> made, ret |-> outcome]

\* The caller has made no first call.
CallerIdle == earlier = Conversion(Call("none", 0, 0, 0), NoOutcome)

----------------------------------------------------------------------------
(* The state machine: calls of the class methods.                          *)

\* The converter is not called: it stays as constructed.
ConverterIdle ==
    /\ pc = "idle"
    /\ call = Call("none", 0, 0, 0)
    /\ ret = NoOutcome
    /\ back = NoOutcome

\* A caller holds the year it is going to ask about and has called nothing.
Init ==
    /\ pc = "idle"
    /\ \E year \in Years : call = Call("none", year, 0, 0)
    /\ ret = NoOutcome
    /\ back = NoOutcome
    /\ StoreInit
    /\ BotInit
    /\ MigrateIdle
    /\ ThreadsIdle
    /\ CallerIdle

\* EthiopianDateConverter._validate_ethiopian_date(year, month, date), called
\* by an idle caller with a month and a day of its choice (as in every call
\* below).
ValidateEthiopian ==
    /\ pc = "idle"
    /\ \E month \in Months, date \in Days :
        /\ call' = Call("_validate_ethiopian_date", call.year, month, date)
        /\ ret' = ReturnMessage(_validate_ethiopian_date(call.year, month, date))
    /\ pc' = "validated"
    /\ UNCHANGED <<back, notConverter>>

\* EthiopianDateConverter._validate_gregorian_date(year, month, date)
ValidateGregorian ==
    /\ pc = "idle"
    /\ \E month \in Months, date \in Days :
        /\ call' = Call("_validate_gregorian_date", call.year, month, date)
        /\ ret' = ReturnMessage(_validate_gregorian_date(call.year, month, date))
    /\ pc' = "validated"
    /\ UNCHANGED <<back, notConverter>>

\* EthiopianDateConverter.to_gregorian(year, month, date)
ToGregorian ==
    /\ pc = "idle"
    /\ \E month \in Months, date \in Days :
        /\ call' = Call("to_gregorian", call.year, month, date)
        /\ ret' = to_gregorian(call.year, month, date)
    /\ pc' = "converted"
    /\ UNCHANGED <<back, notConverter>>

\* EthiopianDateConverter.to_ethiopian(year, month, date)
ToEthiopian ==
    /\ pc = "idle"
    /\ \E month \in Months, date \in Days :
        /\ call' = Call("to_ethiopian", call.year, month, date)
        /\ ret' = to_ethiopian(call.year, month, date)
    /\ pc' = "converted"
    /\ UNCHANGED <<back, notConverter>>

\* to_ethiopian(*to_gregorian(y, m, d)): the returned date goes back.
BackToEthiopian ==
    /\ pc = "converted"
    /\ call.fn = "to_gregorian"
    /\ ret.kind = "return"
    /\ pc' = "round_trip"
    /\ back' = to_ethiopian(ret.value[1], ret.value[2], ret.value[3])
    /\ UNCHANGED <<call, ret, notConverter>>

\* to_gregorian(*to_ethiopian(y, m, d)): the returned date goes back.
BackToGregorian ==
    /\ pc = "converted"
    /\ call.fn = "to_ethiopian"
    /\ ret.kind = "return"
    /\ pc' = "round_trip"
    /\ back' = to_gregorian(ret.value[1], ret.value[2], ret.value[3])
    /\ UNCHANGED <<call, ret, notConverter>>

\* /start: start(update, context)
Start ==
    /\ \E now \in Timestamps, written \in BOOLEAN :
        AddUserStep(EffectiveUser.id, EffectiveUser.username,
                    EffectiveUser.first_name, now, written)
    /\ Deliver(Update("/start", <<>>),
               Handled(EmptyDict, Reply("welcome", "en", <<>>, lang_keyboard)))
    /\ UNCHANGED <<converterVars, migrateVars, threadVars, callerVars>>

\* /help: help_command(update, context)
HelpCommand ==
    /\ Deliver(Update("/help", <<>>), help_command(user_data))
    /\ UNCHANGED notBot

\* /today: today_command(update, context)
TodayCommand ==
    /\ \E now \in Todays :
        Deliver(Update("/today", <<>>), today_command(user_data, now))
    /\ UNCHANGED notBot

\* A button of a message in the chat is pressed:
\* handle_callback(update, context)
HandleCallback ==
    /\ \E data \in shown, now \in Todays :
        Deliver(Update("callback", data), handle_callback(user_data, data, now))
    /\ UNCHANGED notBot

\* A text that is not a command is typed: handle_text(update, context)
HandleText ==
    /\ \E text \in Texts :
        Deliver(Update("text", text), handle_text(user_data, text))
    /\ UNCHANGED notBot

\* python user_migrate.py [--apply]: main()
Main ==
    /\ Len(log) < MaxRuns
    /\ \E DRY_RUN \in BOOLEAN :
        LET run == MigrateAll(users_json)
        IN  /\ log' = Append(log, [DRY_RUN |-> DRY_RUN, users |-> run.users,
                                   new_users |-> run.new_users,
                                   total |-> run.total,
                                   migrated |-> run.migrated,
                                   already_ok |-> run.already_ok])
            /\ users_json' = IF DRY_RUN THEN users_json ELSE run.new_users
    /\ UNCHANGED notMigrate

\* A thread enters to_gregorian or to_ethiopian: the validation, and the
\* list displays when the date is valid.
Invoke ==
    \E thread \in Threads :
        /\ frames[thread].pc \in {"idle", "done"}
        /\ \E c \in ConcurrentCalls :
            LET error_msg ==
                    IF c.fn = "to_gregorian"
                    THEN _validate_ethiopian_date(c.year, c.month, c.date)
                    ELSE _validate_gregorian_date(c.year, c.month, c.date)
            IN  IF error_msg # None
                THEN /\ frames' = [frames EXCEPT ![thread] =
                            Frame("done", c, 0, 0, ValueError(error_msg))]
                     /\ UNCHANGED tables
                ELSE /\ frames' = [frames EXCEPT ![thread] =
                            Frame("allocated", c, 0, 0, NoOutcome)]
                     /\ tables' = Put(tables, LocalLists(thread, c.fn),
                                      NewLists(c.fn))
        /\ UNCHANGED notThreads

\* The thread's call makes its leap-year writes.
AdjustTables ==
    \E thread \in Threads :
        /\ frames[thread].pc = "allocated"
        /\ LET c  == frames[thread].call
               id == LocalLists(thread, c.fn)
           IN  /\ tables' = Put(tables, id, LeapAdjusted(c, tables[id]))
               /\ frames' = [frames EXCEPT ![thread].pc = "adjusted"]
        /\ UNCHANGED notThreads

\* The thread's call counts the elapsed days and writes the slots that
\* depend on them.
CountDays ==
    \E thread \in Threads :
        /\ frames[thread].pc = "adjusted"
        /\ LET c  == frames[thread].call
               id == LocalLists(thread, c.fn)
               n  == DaysCounted(c, tables[id])
           IN  /\ tables' = Put(tables, id, n.lists)
               /\ frames' = [frames EXCEPT ![thread] =
                      Frame("counted", c, n.until, n.tahissas, NoOutcome)]
        /\ UNCHANGED notThreads

\* The thread's call walks its list and returns.
Walk ==
    \E thread \in Threads :
        /\ frames[thread].pc = "counted"
        /\ LET f  == frames[thread]
               id == LocalLists(thread, f.call.fn)
           IN  frames' = [frames EXCEPT ![thread] =
                   Frame("done", f.call, f.until, f.tahissas,
                         Walked(f.call, tables[id], f.until, f.tahissas))]
        /\ UNCHANGED <<tables, notThreads>>

\* The conversions.
Next == ToGregorian \/ ToEthiopian
Spec == Init /\ [][Next]_vars

\* The validators alone.
NextValidate == ValidateEthiopian \/ ValidateGregorian
SpecValidate == Init /\ [][NextValidate]_vars

\* The conversions and their round trips.
NextRoundTrip ==
    ToGregorian \/ ToEthiopian \/ BackToEthiopian \/ BackToGregorian
SpecRoundTrip == Init /\ [][NextRoundTrip]_vars

\* to_gregorian on a valid date, then to_gregorian on a later valid date:
\* the second call of a caller that keeps the outcome of the first.
ToGregorianLater ==
    /\ pc = "converted"
    /\ call.fn = "to_gregorian"
    /\ _validate_ethiopian_date(call.year, call.month, call.date) = None
    /\ \E ahead \in 1..MaxAhead :
        LET later == DaysAfter(<<call.year, call.month, call.date>>, ahead)
        IN  /\ call' = Call("to_gregorian", later[1], later[2], later[3])
            /\ ret' = to_gregorian(later[1], later[2], later[3])
    /\ earlier' = Conversion(call, ret)
    /\ pc' = "later"
    /\ UNCHANGED <<back, notCaller>>

\* to_gregorian called on two dates in calendar order.
NextOrder == ToGregorian \/ ToGregorianLater
SpecOrder == Init /\ [][NextOrder]_vars

\* add_user(user_id, username=..., first_name=...)
AddUser ==
    /\ \E user_id \in UserIds, profile \in Profiles,
          now \in Timestamps, written \in BOOLEAN :
            AddUserStep(user_id, profile.username, profile.first_name,
                        now, written)
    /\ UNCHANGED notStore

\* get_user_count()
GetUserCount ==
    /\ returned' = Returned("get_user_count", 0, get_user_count)
    /\ _users_cache' = load_users
    /\ UNCHANGED <<users_file, added, notStore>>

\* The user store alone.
InitUsers ==
    /\ ConverterIdle /\ StoreInit /\ BotInit /\ MigrateIdle /\ ThreadsIdle
    /\ CallerIdle
NextUsers == AddUser \/ GetUserCount
SpecUsers == InitUsers /\ [][NextUsers]_vars

\* The bot in one chat.
InitBot ==
    /\ ConverterIdle /\ StoreInit /\ BotInit /\ MigrateIdle /\ ThreadsIdle
    /\ CallerIdle
NextBot ==
    Start \/ HelpCommand \/ TodayCommand \/ HandleCallback \/ HandleText
SpecBot == InitBot /\ [][NextBot]_vars

\* The migration script, run again and again on a users.json.
InitMigrate ==
    /\ ConverterIdle /\ StoreInit /\ BotInit /\ MigrateInit /\ ThreadsIdle
    /\ CallerIdle
NextMigrate == Main
SpecMigrate == InitMigrate /\ [][NextMigrate]_vars

\* Threads calling the converter at the same time.
InitThreads ==
    /\ ConverterIdle /\ StoreInit /\ BotInit /\ MigrateIdle /\ ThreadsInit
    /\ CallerIdle
NextThreads == Invoke \/ AdjustTables \/ CountDays \/ Walk
SpecThreads == InitThreads /\ [][NextThreads]_vars

----------------------------------------------------------------------------
(* Properties.                                                             *)

\* The call recorded in the state is fn(year, month, date) and has returned
\* or raised.
Called(fn, year, month, date) ==
    /\ pc # "idle"
    /\ call = Call(fn, year, month, date)

\* A (year, month, day) triple was returned.
ReturnedDate(outcome) ==
    /\ outcome.kind = "return"
    /\ outcome.msg = None
    /\ Len(outcome.value) = 3

\* The triple of the call's arguments.
Args == <<call.year, call.month, call.date>>

\* C1: round trip from the Ethiopian side.  For every Ethiopian date
\* (y, m, d) the Ethiopian validator accepts, y in 1..2020, to_gregorian
\* returns a date, and to_ethiopian of that date returns exactly (y, m, d).
\* The code breaks it, e.g. to_gregorian(2016, 1, 1) = 2023-09-13 and
\* to_ethiopian(2023, 9, 13) = (2016, 1, 3).
C1_RoundTripFromEthiopian ==
    (/\ call.fn = "to_gregorian"
     /\ call.year \in 1..2020
     /\ _validate_ethiopian_date(call.year, call.month, call.date) = None)
    => /\ pc = "converted" => ReturnedDate(ret)
       /\ pc = "round_trip" => ReturnedDate(back) /\ back.value = Args

\* C2: round trip from the Gregorian side.  For every Gregorian date
\* (y, m, d) the Gregorian validator accepts, to_ethiopian returns a date,
\* to_gregorian accepts that date and returns exactly (y, m, d).
\* The code breaks it, e.g. to_ethiopian(2024, 1, 1) = (2016, 4, 22) and
\* to_gregorian(2016, 4, 22) = 2024-01-02.
C2_RoundTripFromGregorian ==
    (/\ call.fn = "to_ethiopian"
     /\ call.year \in 1..MaxYear
     /\ _validate_gregorian_date(call.year, call.month, call.date) = None)
    => /\ pc = "converted" => ReturnedDate(ret)
       /\ pc = "round_trip" => ReturnedDate(back) /\ back.value = Args

\* C3: the documented fixed-point pair.  to_gregorian(2017, 4, 27) returns
\* Gregorian (2025, 1, 5), and to_ethiopian(2025, 1, 5) returns Ethiopian
\* (2017, 4, 27).
C3_FixedPoints ==
    /\ Called("to_gregorian", 2017, 4, 27) => ret = ReturnDate(2025, 1, 5)
    /\ Called("to_ethiopian", 2025, 1, 5) => ret = ReturnDate(2017, 4, 27)

C3_Witness ==
    /\ Called("to_gregorian", 2017, 4, 27)
    /\ ret = ReturnDate(2025, 1, 5)

\* C4: the Ethiopian validator accepts 2015/13/6 (leap-year Pagume) and
\* rejects 2016/13/6 (non-leap year).  The code does the opposite: its leap
\* rule (year - 1) % 4 = 3 makes 2016 the leap year and 2015 a common one.
C4_PagumeFixedPoints ==
    /\ Called("_validate_ethiopian_date", 2015, 13, 6) => ret.msg = None
    /\ Called("_validate_ethiopian_date", 2016, 13, 6) => ret.msg # None

\* The error kinds of the specification, by the message the code gives.
InvalidComponentTexts ==
    { "Invalid Ethiopian year: {year}. Year must be a positive integer.",
      "Invalid Ethiopian month: {month}. Month must be between 1 and 13.",
      "Invalid Ethiopian day: {date}. Day must be a positive integer.",
      "Invalid Ethiopian month: {month}. Ethiopian calendar has only 13 months (1-13).",
      "Invalid Gregorian year: {year}. Year must be a positive integer.",
      "Invalid Gregorian month: {month}. Month must be between 1 and 12.",
      "Invalid Gregorian day: {date}. Day must be a positive integer.",
      "Invalid Gregorian month: {month}. Gregorian calendar has only 12 months (1-12)." }

DayOutOfRangeTexts ==
    { "Invalid Ethiopian date: Month {month} has only 30 days, but day {date} was provided.",
      "Invalid Ethiopian date: Pagume (month 13) has only {max_days} days in {leap_status} {year}, but day {date} was provided.",
      "Invalid Gregorian date: {month_name} has only {max_days} days in {year}{leap_info}, but day {date} was provided." }

CalendarGapTexts ==
    { "Invalid Gregorian date: October 5-14, 1582 do not exist. These dates were skipped during the adoption of the Gregorian calendar." }

\* The call raised a ValueError whose message is of one of the given texts.
Raised(outcome, texts) ==
    /\ outcome.kind = "ValueError"
    /\ outcome.msg.text \in texts
    /\ outcome.value = <<>>

C6_CalendarGap ==
    (pc = "converted" /\ call.fn = "to_ethiopian")
    => /\ Raised(ret, CalendarGapTexts)
            <=> (call.year = 1582 /\ call.month = 10 /\ call.date \in 5..14)
       /\ (call.year = 1582 /\ call.month = 10 /\ call.date \in {4, 15})
            => ReturnedDate(ret)

C6_Witness ==
    /\ Called("to_ethiopian", 1582, 10, 14)
    /\ Raised(ret, CalendarGapTexts)

\* C7: the Gregorian validator accepts February 29 of year y exactly when y
\* is divisible by 4 and not by 100, or divisible by 400; it rejects
\* February 30 for every y and accepts February 28 for every y >= 1.
C7_LeapFebruary ==
    (/\ pc = "validated"
     /\ call.fn = "_validate_gregorian_date"
     /\ call.month = 2)
    => /\ (call.date = 29 /\ call.year >= 1)
            => (ret.msg = None
                <=> \/ call.year % 4 = 0 /\ call.year % 100 # 0
                    \/ call.year % 400 = 0)
       /\ call.date = 30 => ret.msg # None
       /\ (call.date = 28 /\ call.year >= 1) => ret.msg = None

C7_Witness ==
    /\ Called("_validate_gregorian_date", 1900, 2, 29)
    /\ ret.msg.text \in DayOutOfRangeTexts

\* C8: the Ethiopian validator reports an invalid-component error exactly
\* when year <= 0, month <= 0, day <= 0 or month > 13 (also when the day is
\* above 30 as well), a day-out-of-range error exactly when all components
\* are in range and the day exceeds 30 (month <= 12) or the Pagume limit
\* (month 13: 6 when (year - 1) mod 4 = 3, else 5), and no error otherwise.
C8_EthiopianValidator ==
    (pc = "validated" /\ call.fn = "_validate_ethiopian_date")
    => LET bad   == \/ call.year <= 0 \/ call.month <= 0
                    \/ call.date <= 0 \/ call.month > 13
           limit == IF call.month <= 12 THEN 30
                    ELSE IF (call.year - 1) % 4 = 3 THEN 6 ELSE 5
       IN  /\ ret.kind = "return"
           /\ ret.msg.text \in InvalidComponentTexts <=> bad
           /\ ret.msg.text \in DayOutOfRangeTexts
                <=> (~bad /\ call.date > limit)
           /\ ret.msg = None <=> (~bad /\ call.date <= limit)

C8_Witness ==
    /\ Called("_validate_ethiopian_date", 2017, 14, 31)
    /\ ret.msg.text \in InvalidComponentTexts

\* The standard days-in-month table, January first.
StandardDays == <<31, 28, 31, 30, 31, 30, 31, 31, 30, 31, 30, 31>>

\* C9: the Gregorian validator accepts a triple exactly when year >= 1,
\* month is in 1..12, day >= 1, the day is not above the days-in-month table
\* (February 29 in a Gregorian leap year) and the date is not one of
\* 1582-10-05 .. 1582-10-14.
C9_GregorianValidator ==
    (pc = "validated" /\ call.fn = "_validate_gregorian_date")
    => LET leap == \/ call.year % 4 = 0 /\ call.year % 100 # 0
                   \/ call.year % 400 = 0
           good == /\ call.year >= 1
                   /\ call.month \in 1..12
                   /\ call.date >= 1
                   /\ call.date <= IF call.month = 2 /\ leap THEN 29
                                   ELSE StandardDays[call.month]
                   /\ ~(/\ call.year = 1582 /\ call.month = 10
                        /\ call.date \in 5..14)
       IN  ret.msg = None <=> good

C9_Witness ==
    /\ Called("_validate_gregorian_date", 2024, 9, 30)
    /\ ret.msg = None

\* C10: both conversions validate first and fail fast.  Whenever the
\* matching validator reports an error for (year, month, day), the
\* conversion raises that same message unchanged and returns no date;
\* whenever the validator reports no error, the conversion returns a date
\* triple and raises nothing.
C10_FailFast ==
    (pc = "converted" /\ call.fn \in {"to_gregorian", "to_ethiopian"})
    => LET error_msg ==
               IF call.fn = "to_gregorian"
               THEN _validate_ethiopian_date(call.year, call.month, call.date)
               ELSE _validate_gregorian_date(call.year, call.month, call.date)
       IN  IF error_msg # None
           THEN /\ ret.kind = "ValueError"
                /\ ret.msg = error_msg
                /\ ret.value = <<>>
           ELSE ReturnedDate(ret)

C10_Witness ==
    /\ Called("to_gregorian", 2017, 13, 6)
    /\ Raised(ret, DayOutOfRangeTexts)
    /\ ret.msg.nums = <<5, 2017, 6>>

\* A to_gregorian call on a date the Ethiopian validator accepts has returned
\* or raised.
ConvertedToGregorian ==
    /\ pc = "converted"
    /\ call.fn = "to_gregorian"
    /\ _validate_ethiopian_date(call.year, call.month, call.date) = None

\* The slot the walk of the recorded to_gregorian call ends at, with what is
\* left of the elapsed days.
GregorianSlot ==
    LET e == GregorianElapsed(call.year, call.month, call.date)
    IN  GregorianWalk(e.gregorian_months, 0, e.until)

\* C15 (as amended): in to_gregorian the walk stops by break at a slot in
\* 0..13; the slot is mapped to the Gregorian month by the fixed rotation
\* table 8, 9, 10, 11, 12, 1, ..., 8, 9, in which slot 0 (reached only in the
\* historical branch) is August and slot 1 is September; and the elapsed
\* days left at that slot are the 1-based Gregorian day.
C15_RotationTable ==
    ConvertedToGregorian
    => LET slot == GregorianSlot
       IN  /\ slot.broke
           /\ slot.m \in 0..13
           /\ ReturnedDate(ret)
           /\ ret.value[2] = IF slot.m = 0 THEN 8
                             ELSE ((slot.m + 7) % 12) + 1
           /\ ret.value[3] = slot.until
           /\ slot.until >= 1

C15_Witness ==
    /\ Called("to_gregorian", 1, 1, 1)
    /\ GregorianSlot.m = 0
    /\ ret = ReturnDate(8, 8, 29)

\* C15 as stated: slot 0 maps to September (9).
C15_SlotZeroSeptember ==
    (ConvertedToGregorian /\ GregorianSlot.m = 0)
    => /\ ReturnedDate(ret)
       /\ ret.value[2] = 9
       /\ ret.value[3] = GregorianSlot.until

\* C16: in to_gregorian the elapsed-day count starts at (month - 1) * 30 +
\* day.  The historical branch (28 added, slot 0 set to 31) is taken exactly
\* when that count is <= 37 and the year is <= 1575; otherwise the new-year
\* offset minus 1 is added and slot 0 stays 0.  In both branches one further
\* day is added exactly when (year - 1) mod 4 = 3.  The date returned is the
\* one the walk finds from that count.
C16_ElapsedDays ==
    ConvertedToGregorian
    => LET year       == call.year
           count      == ((call.month - 1) * 30) + call.date
           historical == count <= 37 /\ year <= 1575
           offset     == (year \div 100) - (year \div 400) - 4
                         + (IF (year - 1) % 4 = 3 THEN 1 ELSE 0)
           elapsed    == count
                         + (IF historical THEN 28 ELSE offset - 1)
                         + (IF (year - 1) % 4 = 3 THEN 1 ELSE 0)
           e          == GregorianElapsed(year, call.month, call.date)
           table      == [e.gregorian_months EXCEPT
                              ![0] = IF historical THEN 31 ELSE 0]
       IN  /\ e.historical = historical
           /\ e.until = elapsed
           /\ e.gregorian_months = table
           /\ ReturnedDate(ret)
           /\ ret.value[3] = GregorianWalk(table, 0, elapsed).until

C16_Witness ==
    /\ Called("to_gregorian", 1575, 2, 7)
    /\ GregorianElapsed(1575, 2, 7).historical
    /\ GregorianElapsed(1575, 2, 7).until = 65
    /\ ret = ReturnDate(1582, 10, 4)

\* A to_ethiopian call on a date the Gregorian validator accepts has
\* returned or raised.
ConvertedToEthiopian ==
    /\ pc = "converted"
    /\ call.fn = "to_ethiopian"
    /\ _validate_gregorian_date(call.year, call.month, call.date) = None

\* C17: in to_ethiopian, for every valid Gregorian input, the walk over
\* slots 1..14 stops at a slot whose length is at least the elapsed days
\* left (the remainder fits); the returned day is the remainder plus
\* (30 - tahissas) when that slot is index 1 or has length 0, and the
\* remainder otherwise; the Ethiopian year is the Gregorian year minus 8,
\* plus 1 exactly when the slot index is above 10.
\* The code breaks the first part: before the 1582 reform the slots add up
\* to 360 or 362 days, so for the last days of December the loop runs out
\* without break, e.g. to_ethiopian(1581, 12, 31) = (1574, 4, 365).
C17_EthiopianWalk ==
    ConvertedToEthiopian
    => LET e    == EthiopianElapsed(call.year, call.month, call.date)
           slot == EthiopianWalk(e.ethiopian_months, 1, e.until)
           len  == e.ethiopian_months[slot.m]
       IN  /\ slot.broke
           /\ slot.m \in 1..14
           /\ slot.until <= len
           /\ ReturnedDate(ret)
           /\ ret.value[3] = IF slot.m = 1 \/ len = 0
                             THEN slot.until + (30 - e.tahissas)
                             ELSE slot.until
           /\ ret.value[1] = (call.year - 8) + (IF slot.m > 10 THEN 1 ELSE 0)

\* C20: for every valid Ethiopian date with year in 1..2020, the
\* (year, month, day) computed by to_gregorian is one the Gregorian validator
\* accepts: the month is in 1..12, the day is within that month's length
\* (February has 29 days only in a Gregorian leap year) and the date is never
\* one of 1582-10-05 .. 1582-10-14.
C20_GregorianResultValid ==
    (ConvertedToGregorian /\ call.year \in 1..2020)
    => /\ ReturnedDate(ret)
       /\ LET year  == ret.value[1]
              month == ret.value[2]
              day   == ret.value[3]
              leap  == \/ year % 4 = 0 /\ year % 100 # 0
                       \/ year % 400 = 0
          IN  /\ year >= 1
              /\ month \in 1..12
              /\ day >= 1
              /\ day <= IF month = 2 /\ leap THEN 29 ELSE StandardDays[month]
              /\ ~(year = 1582 /\ month = 10 /\ day \in 5..14)
              /\ _validate_gregorian_date(year, month, day) = None

C20_Witness ==
    /\ Called("to_gregorian", 1575, 2, 8)
    /\ ret = ReturnDate(1582, 10, 15)
    /\ _validate_gregorian_date(1582, 10, 15) = None

\* C14: the user store counts unique users.  Starting from an empty store,
\* after any sequence of add_user calls get_user_count is the number of
\* distinct user ids add_user was called with; add_user returns True exactly
\* on the first call for an id and False on every later one; and a repeated
\* add_user leaves the stored record of that id (timestamp included), and
\* the rest of the store, as it was.
C14_UniqueUsers ==
    [][/\ get_user_count' = Cardinality(added')
       /\ returned'.fn = "get_user_count"
            => returned'.value = Cardinality(added)
       /\ returned'.fn = "add_user"
            => LET user_id == returned'.user_id
               IN  /\ returned'.value = (user_id \notin added)
                   /\ str(user_id) \in DOMAIN load_users'
                   /\ user_id \in added
                        => /\ load_users'[str(user_id)]
                                = load_users[str(user_id)]
                           /\ load_users' = load_users
                           /\ users_file' = users_file]_vars

C14_Witness ==
    /\ returned.fn = "add_user"
    /\ returned.user_id = 1
    /\ returned.value = FALSE
    /\ added = {1, 2}
    /\ get_user_count = 2
    /\ _users_cache["1"] = [t |-> 2, u |-> "abebe", n |-> "Abebe"]
    /\ _users_cache["2"] = [t |-> 1]
    /\ users_file = EmptyDict

\* The session is waiting for a date.
Waiting == "mode" \in DOMAIN user_data

\* C18: while the session is waiting for a date (mode is set), every message
\* the bot sends to the chat carries only the Cancel keyboard, whatever the
\* event was (a text, /help, /today, a button).
\* The code breaks it: /help, /today and the buttons of earlier messages
\* (today, holidays, help, language) answer with the main keyboard and leave
\* mode set.
C18_OnlyCancelWhileWaiting ==
    Waiting
    => /\ sent.keyboard.name = "cancel_keyboard"
       /\ sent.keyboard.buttons = {<<"action", "cancel">>}

\* The text typed for a date.
Typed(y, m, d) == <<Number(y), Number(m), Number(d)>>

\* C12: as the help text of the bot states, the Gregorian -> Ethiopian
\* conversion of 2025/1/5 is displayed as day 27 of the Ethiopian month
\* Miyazia of 2017: format_ethiopian applied to to_ethiopian(2025, 1, 5)
\* names the month Miyazia.
\* The code breaks it: to_ethiopian(2025, 1, 5) is (2017, 4, 27) and
\* ETH_MONTHS_EN[3] is Tahsas, so the result reads "27 ... (Tahsas)
\* (December) 2017".
C12_HelpExampleDisplayed ==
    (/\ sent.text = "g2e"
     /\ sent.args[1] = format_gregorian(2025, 1, 5))
    => LET eth_str == sent.args[2]
       IN  /\ eth_str = format_ethiopian(2017, 8, 27)
           /\ eth_str.strs[2] = "Miyazia"
           /\ str(eth_str.nums[1]) \o " " \o eth_str.strs[2] \o " "
                \o str(eth_str.nums[2]) = HelpExamples.G2E.result

\* The last update was a text typed while the session had a language and a
\* mode, and it left them as they were.
TextWhileWaiting ==
    /\ update.kind = "text"
    /\ "lang" \in DOMAIN user_data
    /\ "mode" \in DOMAIN user_data

\* C19 (as amended): in handle_text with language and mode set, a text that
\* does not look like a date (no slash, or no digit) gets the
\* unrecognised-date reply; a text that looks like a date but is malformed
\* (not three parts, or a part that is not a number) gets the format-error
\* reply; and a well-formed text the converter fails on gets the
\* conversion-error reply carrying the converter's message.  In all three
\* cases the reply carries the Cancel keyboard and the session is unchanged
\* (mode still set, last_mode untouched).
C19_ErrorsKeepSession ==
    [][(/\ update'.kind = "text"
        /\ "lang" \in DOMAIN user_data
        /\ "mode" \in DOMAIN user_data)
       => LET text      == update'.data
              malformed == Len(text) # 3 \/ \E i \in 1..Len(text) : ~text[i].int
              converted == IF user_data["mode"] = "E2G"
                           THEN to_gregorian(text[1].n, text[2].n, text[3].n)
                           ELSE to_ethiopian(text[1].n, text[2].n, text[3].n)
              kept      == /\ user_data' = user_data
                           /\ sent'.keyboard
                                = cancel_keyboard(user_data["lang"])
          IN  /\ (malformed /\ ~looks_like_date(text))
                    => sent'.text = "unrecognised_date" /\ kept
              /\ (malformed /\ looks_like_date(text))
                    => sent'.text = "format_error" /\ kept
              /\ (~malformed /\ converted.kind = "ValueError")
                    => /\ sent'.text = "conversion_error"
                       /\ sent'.args = <<converted.msg>>
                       /\ kept
              /\ (~malformed /\ converted.kind = "return")
                    => "mode" \notin DOMAIN user_data']_vars

C19_Witness ==
    /\ TextWhileWaiting
    /\ update.data = Typed(9999, 1, 5)
    /\ user_data = [lang |-> "am", mode |-> "E2G", last_mode |-> "G2E"]
    /\ sent.text = "conversion_error"
    /\ sent.args[1].text = "year {year} is out of range"
    /\ sent.args[1].nums = <<10006>>

\* C19 as stated: every malformed input (not three parts, or a part that is
\* not a number) gets the format-error reply.
C19_MalformedIsFormatError ==
    [][(/\ update'.kind = "text"
        /\ "lang" \in DOMAIN user_data
        /\ "mode" \in DOMAIN user_data)
       => LET text      == update'.data
              malformed == Len(text) # 3 \/ \E i \in 1..Len(text) : ~text[i].int
          IN  malformed
                => sent'.text = "format_error" /\ user_data' = user_data]_vars

\* C13: the migration is safe to re-run.  migrate_record applied to a record
\* it produced (keys among t, u, n) returns an equal record and
\* was_changed = False, so migrate(migrate(r)) = migrate(r) for every record
\* r of the old or the new format, and a run that follows an applied run
\* reports nothing to migrate and writes the file it found.
C13_MigrationIdempotent ==
    /\ \A i \in 1..Len(log) : \A uid \in DOMAIN log[i].users :
        LET once  == migrate_record(uid, log[i].users[uid])
            twice == migrate_record(uid, once.record)
        IN  /\ log[i].new_users[uid] = once.record
            /\ DOMAIN once.record \subseteq {"t", "u", "n"}
            /\ twice.record = once.record
            /\ twice.changed = FALSE
    /\ \A i \in 1..Len(log) : \A j \in (i + 1)..Len(log) :
        ~log[i].DRY_RUN
            => /\ log[j].migrated = 0
               /\ log[j].already_ok = log[j].total
               /\ log[j].new_users = log[j].users
               /\ log[j].users = log[i].new_users

C13_Witness ==
    /\ Len(log) = 2
    /\ ~log[1].DRY_RUN
    /\ log[1].users = Put(EmptyDict, "1",
            [username |-> "\"abebe\"", first_name |-> "\"N/A\"",
             user_id |-> "1"])
    /\ log[1].migrated = 1
    /\ log[2].users = Put(EmptyDict, "1", [t |-> "0", u |-> "\"abebe\""])
    /\ log[2].migrated = 0
    /\ users_json = log[2].users

\* C11: the converter keeps no shared mutable state.  The month-length lists
\* a call writes to (leap February, the widened slot 0, the Pagume length,
\* the tahissas slots) are local to the call, so under every interleaving
\* and every ordering of to_gregorian and to_ethiopian calls, each call
\* returns or raises exactly what it does when it runs alone.
C11_CallsDoNotInterfere ==
    \A thread \in DOMAIN frames :
        frames[thread].pc = "done"
        => LET c == frames[thread].call
           IN  frames[thread].result
                   = IF c.fn = "to_gregorian"
                     THEN to_gregorian(c.year, c.month, c.date)
                     ELSE to_ethiopian(c.year, c.month, c.date)

\* A historical to_gregorian call has widened its slot 0 and returned while
\* a later to_gregorian call of the other thread is about to walk its list.
C11_Witness ==
    /\ DOMAIN frames = Threads
    /\ frames[1].pc = "done"
    /\ frames[1].call = Call("to_gregorian", 1575, 1, 5)
    /\ frames[1].result = ReturnDate(1582, 9, 2)
    /\ tables[<<1, "to_gregorian">>].gregorian_months[0] = 31
    /\ frames[2].pc = "counted"
    /\ frames[2].call = Call("to_gregorian", 2016, 6, 1)
    /\ tables[<<2, "to_gregorian">>].gregorian_months[0] = 0
    /\ tables[<<2, "to_gregorian">>].gregorian_months[6] = 29

\* C21: for every Gregorian date the Gregorian validator accepts (years from
\* 1 on, the years before 1582 and the years 1..8 included), the triple
\* to_ethiopian returns is one the Ethiopian validator accepts: year >= 1,
\* month in 1..13, day in 1..30, and day within the Pagume limit in month 13.
\* The code breaks it: the Ethiopian year is the Gregorian year minus 8 (plus
\* 1 after the new year), so to_ethiopian(1, 1, 1) = (-7, 5, 1); and before
\* 1582 the last days of December come back as day 361..366 of month 4.
C21_EthiopianResultValid ==
    ConvertedToEthiopian
    => /\ ReturnedDate(ret)
       /\ LET year  == ret.value[1]
              month == ret.value[2]
              day   == ret.value[3]
          IN  /\ year >= 1
              /\ month \in 1..13
              /\ day \in 1..30
              /\ month = 13 => day <= (IF (year - 1) % 4 = 3 THEN 6 ELSE 5)
              /\ _validate_ethiopian_date(year, month, day) = None

\* a is earlier than b: lexicographic on (year, month, day).
Earlier(a, b) ==
    \/ a[1] < b[1]
    \/ a[1] = b[1] /\ a[2] < b[2]
    \/ a[1] = b[1] /\ a[2] = b[2] /\ a[3] < b[3]

\* to_gregorian was called on a valid Ethiopian date and then on a later
\* valid one, both with years in 1..2020.
ConvertedInOrder ==
    /\ pc = "later"
    /\ earlier.call.year \in 1..2020
    /\ call.year \in 1..2020
    /\ Earlier(<<earlier.call.year, earlier.call.month, earlier.call.date>>,
               <<call.year, call.month, call.date>>)

\* C22: to_gregorian preserves order: for two valid Ethiopian dates a and b
\* with years in 1..2020, if a is earlier than b then to_gregorian(a) is
\* strictly earlier than to_gregorian(b); two different Ethiopian dates never
\* map to the same Gregorian date.
\* The code breaks it: up to 1575 the days up to 2/7 are counted with the
\* historical offset 28 and the days after with new_year_day - 1, so
\* to_gregorian(1, 2, 7) = 8-10-04 and to_gregorian(1, 2, 8) = 8-10-03; and
\* in a year the code takes for leap the last days of Pagume reach the next
\* new year, to_gregorian(2016, 13, 5) = to_gregorian(2017, 1, 1) =
\* 2024-09-11 and to_gregorian(2016, 13, 6) = 2024-09-12.
C22_ToGregorianPreservesOrder ==
    ConvertedInOrder
    => /\ ReturnedDate(earlier.ret)
       /\ ReturnedDate(ret)
       /\ Earlier(earlier.ret.value, ret.value)

\* The step handles a text and handle_text calls a converter on it: the
\* reply is a result or carries a converter's error.
ConverterCalled ==
    /\ update'.kind = "text"
    /\ sent'.text \in {"e2g", "g2e", "conversion_error"}

\* C23: in any sequence of bot events of one session (/start, language
\* choice, mode choice, cancel, change language, convert again, texts),
\* handle_text calls a converter only where both the language and the mode
\* are set, and it calls the one of the direction stored in mode; after a
\* successful conversion the mode is removed and last_mode is the direction
\* just used, so a following text performs no conversion until a mode is
\* chosen again (by a mode button or by convert-again); and convert-again
\* re-enters the direction in last_mode, E2G when none is stored.
C23_ConversionNeedsMode ==
    [][/\ ConverterCalled
          => /\ {"lang", "mode"} \subseteq DOMAIN user_data
             /\ LET text    == update'.data
                    mode    == user_data["mode"]
                    outcome == IF mode = "E2G"
                               THEN to_gregorian(text[1].n, text[2].n, text[3].n)
                               ELSE to_ethiopian(text[1].n, text[2].n, text[3].n)
                    r       == outcome.value
                IN  IF outcome.kind = "ValueError"
                    THEN /\ sent'.text = "conversion_error"
                         /\ sent'.args = <<outcome.msg>>
                         /\ user_data' = user_data
                    ELSE /\ sent'.text = IF mode = "E2G" THEN "e2g" ELSE "g2e"
                         /\ sent'.args[2]
                              = IF mode = "E2G"
                                THEN format_gregorian(r[1], r[2], r[3])
                                ELSE format_ethiopian(r[1], r[2], r[3])
                         /\ "mode" \notin DOMAIN user_data'
                         /\ user_data'
                              = [lang |-> user_data["lang"], last_mode |-> mode]
       /\ (update'.kind = "text" /\ "mode" \notin DOMAIN user_data)
          => /\ sent'.text \in {"unrecognised_lang", "unrecognised_mode"}
             /\ user_data' = user_data
       /\ ("mode" \notin DOMAIN user_data /\ "mode" \in DOMAIN user_data')
          => /\ update'.kind = "callback"
             /\ \/ update'.data[1] = "mode"
                \/ update'.data = <<"action", "convert_again">>
       /\ update' = Update("callback", <<"action", "convert_again">>)
          => LET mode == IF "last_mode" \in DOMAIN user_data
                         THEN user_data["last_mode"] ELSE "E2G"
             IN  /\ "mode" \in DOMAIN user_data'
                 /\ user_data'["mode"] = mode
                 /\ \A key \in DOMAIN user_data' \ {"mode"} :
                        /\ key \in DOMAIN user_data
                        /\ user_data'[key] = user_data[key]
                 /\ sent'.text = IF mode = "E2G" THEN "ask_e" ELSE "ask_g"]_vars

\* A Gregorian date was converted, the mode went and last_mode kept G2E,
\* and convert-again has set the mode to G2E again.
C23_Witness ==
    /\ update = Update("callback", <<"action", "convert_again">>)
    /\ user_data = [lang |-> "en", mode |-> "G2E", last_mode |-> "G2E"]
    /\ sent.text = "ask_g"
    /\ <<"action", "convert_again">> \in shown

====
